---- MODULE Spec2Model ----
(***************************************************************************)
(* Whiteboard task management: the Cloud Functions (weekly task deadline   *)
(* check, overdue report history, user deletion) and the client data       *)
(* access layer, modelled over the Firestore collections they read and     *)
(* write.                                                                  *)
(*                                                                         *)
(* Time is counted in half days since the Unix epoch (a Thursday), so a    *)
(* Date is a natural number and DayMs, the length of a day, is 2.          *)
(***************************************************************************)
EXTENDS Integers, Sequences, FiniteSets, TLC

\* ------------------------------------------------------------------ bounds
MaxTime == 13
MaxRunTicks == 1
MaxReports == 1
MaxStored == 11
MaxLimit == 12

\* --------------------------------------------------------------- constants
\* 1000 * 60 * 60 * 24 in the source, in this model's unit of time
DayMs == 2
\* Date.getDay() of the epoch: 1970-01-01 is a Thursday
EpochDay == 4
\* data.limit || 10
DefaultLimit == 10

\* ------------------------------------------------------------------ values
\* a document id with no document
NoDoc == [type |-> "NoDoc"]
NoDate == -1
NoDay == "NoDay"
NoAuth == "NoAuth"
NoUserId == ""

DayOfWeek ==
  {"monday", "tuesday", "wednesday", "thursday", "friday", "saturday", "sunday"}

TaskTypes == {"daily", "weekly", "main"}
TaskStatuses == {"todo", "in_progress", "completed"}

\* document ids of the tasks collection, in Firestore's document id order
TaskOrder == <<"t1", "t2">>
TaskIds == {TaskOrder[i] : i \in 1..Len(TaskOrder)}

UserIds == {"u1", "u2", "u3"}

\* the users that are signed in and call the functions or use the client
SignedIn == {"u1"}

VARIABLES
  now,             \* the clock: new Date()
  tasks,           \* Firestore collection tasks: id -> document or NoDoc
  users,           \* Firestore collection users: the ids that have a document
  authUsers,       \* Firebase Authentication: the uids that have an account
  overdueReports,  \* Firestore collection overdueReports, in insertion order
  attendance,      \* Firestore collection attendance, in insertion order
  workSessions,    \* Firestore collection workSessions, in insertion order
  session,         \* Firebase Auth's current user and the state of the React component App
  calls,           \* the calls in flight: what each has read and has still to do
  last             \* the last handler run: its inputs, its result, the state it started from

\* the state the Cloud Functions of index.ts work on
serverVars == <<now, tasks, users, authUsers, overdueReports>>

\* the state only the client and the calls in flight work on
appVars == <<attendance, workSessions, session, calls>>

vars == <<serverVars, appVars, last>>

\* no App is mounted, no call is in flight, the client's collections are empty
NoSession == [type |-> "NoSession"]
NoCalls == [type |-> "NoCalls"]
AppIdle ==
  /\ attendance = <<>>
  /\ workSessions = <<>>
  /\ session = NoSession
  /\ calls = NoCalls

\* ------------------------------------------------------------- small helpers
Range(s) == {s[i] : i \in 1..Len(s)}

\* Math.ceil(a / b) for b > 0
Ceil(a, b) == -((-a) \div b)

\* Date.getDay(): Sunday = 0 ... Saturday = 6
getDay(date) == ((date \div DayMs) + EpochDay) % 7

\* ------------------------------------------------------- WeeklyTaskChecker
getDayOfWeekLabel(dayOfWeek) ==
  CASE dayOfWeek = "monday" -> "getsuyoubi"
    [] dayOfWeek = "tuesday" -> "kayoubi"
    [] dayOfWeek = "wednesday" -> "suiyoubi"
    [] dayOfWeek = "thursday" -> "mokuyoubi"
    [] dayOfWeek = "friday" -> "kinyoubi"
    [] dayOfWeek = "saturday" -> "doyoubi"
    [] dayOfWeek = "sunday" -> "nichiyoubi"

dayOfWeekToNumber(dayOfWeek) ==
  CASE dayOfWeek = "sunday" -> 0
    [] dayOfWeek = "monday" -> 1
    [] dayOfWeek = "tuesday" -> 2
    [] dayOfWeek = "wednesday" -> 3
    [] dayOfWeek = "thursday" -> 4
    [] dayOfWeek = "friday" -> 5
    [] dayOfWeek = "saturday" -> 6

\* a variant that counts the days elapsed since the last occurrence of the
\* target weekday, wrapping over the end of the week
getDaysOverdueWrapped(targetDayOfWeek, currentDate) ==
  (getDay(currentDate) - dayOfWeekToNumber(targetDayOfWeek) + 7) % 7

getDaysOverdue(targetDayOfWeek, currentDate) ==
  LET targetDay == dayOfWeekToNumber(targetDayOfWeek)
      currentDay == getDay(currentDate)
  IN  IF currentDay <= targetDay THEN 0 ELSE currentDay - targetDay

\* db.collection('tasks').where('type','==','weekly').where('status','!=','completed'):
\* an inequality filter orders the result by that field, then by document id
StatusOrder == <<"in_progress", "todo">>

DocsWithStatus(db, type, status) ==
  SelectSeq(TaskOrder,
            LAMBDA id : /\ db[id] # NoDoc
                        /\ db[id].type = type
                        /\ db[id].status = status)

\* a variant of the query without the status filter
WeeklyQueryAnyStatus(db) ==
  SelectSeq(TaskOrder, LAMBDA id : db[id] # NoDoc /\ db[id].type = "weekly")

WeeklyIncompleteQuery(db) ==
  DocsWithStatus(db, "weekly", StatusOrder[1]) \o DocsWithStatus(db, "weekly", StatusOrder[2])

\* db.collection('tasks').where('type','==','weekly'): ordered by document id
AllWeeklyQuery(db) ==
  SelectSeq(TaskOrder, LAMBDA id : db[id] # NoDoc /\ db[id].type = "weekly")

\* the Task object built from a document snapshot
TaskOf(db, id) ==
  [id |-> id,
   type |-> db[id].type,
   status |-> db[id].status,
   assignedUserIds |-> db[id].assignedUserIds,
   dueDate |-> db[id].dueDate,
   weeklyDayOfWeek |-> db[id].weeklyDayOfWeek]

\* a variant with two independent tests instead of if / else if
OverduePushesBothTests(task, currentDate) ==
  (IF task.weeklyDayOfWeek # NoDay /\ getDaysOverdue(task.weeklyDayOfWeek, currentDate) > 0
     THEN <<task>> ELSE <<>>)
  \o (IF task.dueDate # NoDate /\ currentDate > task.dueDate THEN <<task>> ELSE <<>>)

\* a variant that tests the dueDate before the weekday
OverduePushesDateFirst(task, currentDate) ==
  IF task.dueDate # NoDate
    THEN IF currentDate > task.dueDate THEN <<task>> ELSE <<>>
    ELSE IF task.weeklyDayOfWeek # NoDay
              /\ getDaysOverdue(task.weeklyDayOfWeek, currentDate) > 0
           THEN <<task>> ELSE <<>>

\* one iteration of the loop of getOverdueWeeklyTasks: what it pushes
OverduePushes(task, currentDate) ==
  IF task.weeklyDayOfWeek # NoDay
    THEN IF getDaysOverdue(task.weeklyDayOfWeek, currentDate) > 0 THEN <<task>> ELSE <<>>
    ELSE IF task.dueDate # NoDate /\ currentDate > task.dueDate THEN <<task>> ELSE <<>>

RECURSIVE OverdueLoop(_, _, _)
OverdueLoop(db, docs, currentDate) ==
  IF docs = <<>> THEN <<>>
  ELSE OverduePushes(TaskOf(db, Head(docs)), currentDate)
         \o OverdueLoop(db, Tail(docs), currentDate)

getOverdueWeeklyTasks(db, currentDate) ==
  OverdueLoop(db, WeeklyIncompleteQuery(db), currentDate)

\* usersMap.get(userId)?.name || `unknown(userId)`
UserName(usersMap, userId) ==
  IF userId \in usersMap THEN <<"name", userId>> ELSE <<"unknown", userId>>

AssignedUserNames(usersMap, ids) == [i \in 1..Len(ids) |-> UserName(usersMap, ids[i])]

ReportDaysOverdue(task, reportDate) ==
  IF task.weeklyDayOfWeek # NoDay THEN getDaysOverdue(task.weeklyDayOfWeek, reportDate)
  ELSE IF task.dueDate # NoDate THEN Ceil(reportDate - task.dueDate, DayMs)
  ELSE 0

ReportEntry(task, usersMap, reportDate) ==
  [id |-> task.id,
   assignedUsers |-> AssignedUserNames(usersMap, task.assignedUserIds),
   dayOfWeek |-> IF task.weeklyDayOfWeek # NoDay
                   THEN getDayOfWeekLabel(task.weeklyDayOfWeek) ELSE NoDay,
   daysOverdue |-> ReportDaysOverdue(task, reportDate)]

\* the report generateOverdueReport builds from the overdue tasks it has read
\* and the tasks collection as the count query finds it
OverdueReportOf(overdueTasks, db, usersMap, processedAt, reportDate) ==
  [totalChecked |-> Len(AllWeeklyQuery(db)),
   overdueCount |-> Len(overdueTasks),
   overdueTasks |-> [i \in 1..Len(overdueTasks) |->
                       ReportEntry(overdueTasks[i], usersMap, reportDate)],
   processedAt |-> processedAt]

\* generateOverdueReport: the tasks are queried at queryDate, processedAt is
\* taken after both reads, and the entries are built after the count query
generateOverdueReport(db, usersMap, queryDate, processedAt, reportDate) ==
  OverdueReportOf(getOverdueWeeklyTasks(db, queryDate), db, usersMap,
                  processedAt, reportDate)

\* admin.firestore.Timestamp.fromDate and Date.toISOString
TimestampFromDate(date) == [timestamp |-> date]
ToISOString(date) == [iso |-> date]

\* a variant that writes the document twice
saveReportTwice(collection, report) ==
  collection \o << [report EXCEPT !.processedAt = TimestampFromDate(report.processedAt)],
                   [report EXCEPT !.processedAt = TimestampFromDate(report.processedAt)] >>

\* saveReport: collection('overdueReports').add({...report, processedAt: Timestamp})
saveReport(collection, report) ==
  Append(collection, [report EXCEPT !.processedAt = TimestampFromDate(report.processedAt)])

\* ------------------------------------------------- functions/src/index.ts
\* where a run can fail: a query of generateOverdueReport (tasks, users or the
\* count query) throws, or the add of saveReport throws
CheckFailures == {"none", "generateOverdueReport", "saveReport"}

Before == [now |-> now, tasks |-> tasks, users |-> users, authUsers |-> authUsers,
           overdueReports |-> overdueReports]

\* what the handler returns on success
CheckResponse(op, report) ==
  IF op = "checkWeeklyTaskDeadlines"
    THEN [success |-> TRUE, report |-> report]
    ELSE [success |-> TRUE,
          message |-> "check completed",
          report |-> [report EXCEPT !.processedAt = ToISOString(report.processedAt)]]

\* The body shared by checkWeeklyTaskDeadlines and manualCheckWeeklyDeadlines:
\* generateOverdueReport, then saveReport; any error becomes HttpsError('internal').
\* The run reads the clock at the task query (now), for processedAt (now + d1)
\* and when it builds the entries (now + d2).
CheckRun(op) ==
  /\ Len(overdueReports) < MaxReports
  /\ \E fail \in CheckFailures :
       IF fail = "none"
         THEN \E d1 \in 0..MaxRunTicks, d2 \in 0..MaxRunTicks :
                /\ d1 <= d2
                /\ now + d2 <= MaxTime
                /\ now' = now + d2
                /\ LET report == generateOverdueReport(tasks, users, now, now + d1, now + d2)
                   IN  /\ overdueReports' = saveReport(overdueReports, report)
                       /\ last' = [op |-> op, result |-> "success", report |-> report,
                                   response |-> CheckResponse(op, report),
                                   before |-> Before]
         ELSE /\ now' = now
              /\ overdueReports' = overdueReports
              /\ last' = [op |-> op, result |-> "internal", failed |-> fail,
                          before |-> Before]
  /\ UNCHANGED <<tasks, users, authUsers>>
  /\ UNCHANGED appVars

checkWeeklyTaskDeadlines == CheckRun("checkWeeklyTaskDeadlines")

manualCheckWeeklyDeadlines == CheckRun("manualCheckWeeklyDeadlines")

\* time passes
Tick ==
  /\ now < MaxTime
  /\ now' = now + 1
  /\ last' = [op |-> "tick"]
  /\ UNCHANGED <<tasks, users, authUsers, overdueReports>>
  /\ UNCHANGED appVars

\* ------------------------------------------- the deadline check: SpecCheck
DueDates == {5}

\* weekly tasks in every status, with and without a weekday and a dueDate
WeeklyTaskDocs ==
  [type : {"weekly"}, status : TaskStatuses, assignedUserIds : {<<>>},
   dueDate : {NoDate} \cup DueDates, weeklyDayOfWeek : {NoDay} \cup DayOfWeek]

\* daily and main tasks; one that was a weekly task before it was edited keeps
\* its weekday and dueDate (updateTask drops the undefined fields of an update)
OtherTaskDocs ==
  [type : {"daily", "main"}, status : {"todo"}, assignedUserIds : {<<>>},
   dueDate : {NoDate} \cup DueDates, weeklyDayOfWeek : {NoDay, "sunday"}]

\* the second document, so that a snapshot can hold two tasks
SecondTaskDocs ==
  {NoDoc,
   [type |-> "weekly", status |-> "in_progress", assignedUserIds |-> <<"u1", "u2">>,
    dueDate |-> 5, weeklyDayOfWeek |-> NoDay]}

InitCheck ==
  /\ now \in 0..MaxTime
  /\ tasks \in {[id \in TaskIds |-> IF id = "t1" THEN a ELSE b] :
                   a \in WeeklyTaskDocs \cup OtherTaskDocs \cup {NoDoc},
                   b \in SecondTaskDocs}
  /\ users = {"u1", "u3"}
  /\ authUsers = {"u1", "u3"}
  /\ overdueReports = <<>>
  /\ AppIdle
  /\ last = [op |-> "init"]

NextCheck ==
  \/ checkWeeklyTaskDeadlines
  \/ manualCheckWeeklyDeadlines

SpecCheck == InitCheck /\ [][NextCheck]_vars

\* -------------------------------------------------------- getOverdueReports
\* data.limit || 10: an absent limit and a limit of 0 are both falsy
LimitOf(dataLimit) == IF dataLimit = 0 THEN DefaultLimit ELSE dataLimit

\* doc.data().processedAt?.toDate()
ToDate(timestamp) == timestamp.timestamp

\* orderBy('processedAt', 'desc') over the documents at the positions idxs:
\* the position stands for the document id, which orders equal processedAt
RECURSIVE OrderByProcessedAtDesc(_, _)
OrderByProcessedAtDesc(collection, idxs) ==
  IF idxs = {} THEN <<>>
  ELSE LET first == CHOOSE i \in idxs : \A j \in idxs :
                      \/ ToDate(collection[j].processedAt) < ToDate(collection[i].processedAt)
                      \/ /\ ToDate(collection[j].processedAt) = ToDate(collection[i].processedAt)
                         /\ j <= i
       IN  <<first>> \o OrderByProcessedAtDesc(collection, idxs \ {first})

\* .limit(n)
Limit(s, n) == SubSeq(s, 1, IF Len(s) < n THEN Len(s) ELSE n)

ReportsQuery(collection, limit) ==
  Limit(OrderByProcessedAtDesc(collection, DOMAIN collection), limit)

\* { id: doc.id, ...doc.data(), processedAt: ISO string }
ReportOf(collection, i) ==
  [id |-> i,
   totalChecked |-> collection[i].totalChecked,
   overdueCount |-> collection[i].overdueCount,
   overdueTasks |-> collection[i].overdueTasks,
   processedAt |-> ToISOString(ToDate(collection[i].processedAt))]

getOverdueReports ==
  /\ \E dataLimit \in 0..MaxLimit, fail \in BOOLEAN :
       IF fail
         THEN last' = [op |-> "getOverdueReports", limit |-> dataLimit,
                       result |-> "internal", before |-> Before]
         ELSE LET docs == ReportsQuery(overdueReports, LimitOf(dataLimit))
              IN  last' = [op |-> "getOverdueReports", limit |-> dataLimit,
                           result |-> "success",
                           reports |-> [k \in 1..Len(docs) |-> ReportOf(overdueReports, docs[k])],
                           before |-> Before]
  /\ UNCHANGED <<now, tasks, users, authUsers, overdueReports>>
  /\ UNCHANGED appVars

\* ------------------------------------------- the report history: SpecReports
EmptyTasks == [id \in TaskIds |-> NoDoc]

\* the collection after k runs of the check on an empty tasks collection, two a day
RECURSIVE StoredReports(_)
StoredReports(k) ==
  IF k = 0 THEN <<>>
  ELSE LET date == (k - 1) \div 2
       IN  saveReport(StoredReports(k - 1),
                      generateOverdueReport(EmptyTasks, {}, date, date, date))

InitReports ==
  /\ now = MaxStored \div 2
  /\ tasks = EmptyTasks
  /\ users = {}
  /\ authUsers = {}
  /\ overdueReports \in {StoredReports(k) : k \in 0..MaxStored}
  /\ AppIdle
  /\ last = [op |-> "init"]

NextReports ==
  \/ getOverdueReports
  \/ Tick

SpecReports == InitReports /\ [][NextReports]_vars

\* ------------------------------------------------------------- deleteUser
\* a variant without the test that forbids deleting oneself
DeleteUserPrecheckNoSelfTest(caller, userId) ==
  IF caller = NoAuth THEN "unauthenticated"
  ELSE IF userId = NoUserId THEN "invalid-argument"
  ELSE "ok"

\* the tests of deleteUser before its try block; caller is context.auth.uid,
\* or NoAuth when context.auth is absent
DeleteUserPrecheck(caller, userId) ==
  IF caller = NoAuth THEN "unauthenticated"
  ELSE IF userId = NoUserId THEN "invalid-argument"
  ELSE IF caller = userId THEN "invalid-argument"
  ELSE "ok"

\* a variant that leaves the account in place
AuthDeleteUserNoop(accounts, userId) == accounts

\* admin.auth().deleteUser(userId); for a uid with no account it throws
\* auth/user-not-found, which deleteUser ignores
AuthDeleteUser(accounts, userId) == accounts \ {userId}

\* a variant with the filter predicate inverted
RemoveAssigneeInverted(assignedUserIds, userId) ==
  SelectSeq(assignedUserIds, LAMBDA id : id = userId)

\* (taskData.assignedUserIds || []).filter(id => id !== userId)
RemoveAssignee(assignedUserIds, userId) ==
  SelectSeq(assignedUserIds, LAMBDA id : id # userId)

\* collection('tasks').where('assignedUserIds', 'array-contains', userId)
TasksAssignedTo(db, userId) ==
  {id \in TaskIds : db[id] # NoDoc /\ userId \in Range(db[id].assignedUserIds)}

\* the tasks collection after the updates of the documents in written
WriteCleanup(db, userId, written) ==
  [id \in TaskIds |->
     IF id \in written
       THEN [db[id] EXCEPT !.assignedUserIds = RemoveAssignee(@, userId)]
       ELSE db[id]]

\* cleanupUserTasks with its batch committed: every task of the query is updated
cleanupUserTasks(db, userId) == WriteCleanup(db, userId, TasksAssignedTo(db, userId))

\* a variant in which the catch of the cleanup rethrows the error
CleanupErrorRethrown(fail) == fail \in {"cleanupQuery", "cleanupCommit"}

\* whether an error of the task cleanup reaches the caller: the catch blocks of
\* cleanupUserTasks and cleanupUserFromTasks log it and return
CleanupErrorPropagates(fail) == FALSE

\* where the callable can fail: the read of the users document, an Auth error
\* other than auth/user-not-found, the delete of the users document, and in
\* cleanupUserTasks the query or the batch commit (both caught there)
DeleteFailures ==
  {"none", "getUser", "authDelete", "deleteDoc", "cleanupQuery", "cleanupCommit"}

DeleteResult(caller, userId, fail, code, cleanup) ==
  [op |-> "deleteUser", caller |-> caller, userId |-> userId, failed |-> fail,
   result |-> code, cleanup |-> cleanup, before |-> Before]

deleteUser ==
  /\ \E caller \in SignedIn \cup {NoAuth}, userId \in UserIds \cup {NoUserId} :
       LET pre == DeleteUserPrecheck(caller, userId)
       IN  IF pre # "ok"
             THEN /\ last' = DeleteResult(caller, userId, "none", pre, "none")
                  /\ UNCHANGED <<users, authUsers, tasks>>
           ELSE \E fail \in DeleteFailures :
             IF fail = "getUser"
               THEN /\ last' = DeleteResult(caller, userId, fail, "internal", "none")
                    /\ UNCHANGED <<users, authUsers, tasks>>
             ELSE IF userId \notin users
               THEN /\ last' = DeleteResult(caller, userId, "none", "not-found", "none")
                    /\ UNCHANGED <<users, authUsers, tasks>>
             ELSE IF fail = "authDelete"
               THEN /\ last' = DeleteResult(caller, userId, fail, "internal", "none")
                    /\ UNCHANGED <<users, authUsers, tasks>>
             ELSE IF fail = "deleteDoc"
               THEN /\ authUsers' = AuthDeleteUser(authUsers, userId)
                    /\ last' = DeleteResult(caller, userId, fail, "internal", "none")
                    /\ UNCHANGED <<users, tasks>>
             ELSE IF CleanupErrorPropagates(fail)
               THEN /\ authUsers' = AuthDeleteUser(authUsers, userId)
                    /\ users' = users \ {userId}
                    /\ tasks' = tasks
                    /\ last' = DeleteResult(caller, userId, fail, "internal", "failed")
             ELSE /\ authUsers' = AuthDeleteUser(authUsers, userId)
                  /\ users' = users \ {userId}
                  /\ IF fail \in {"cleanupQuery", "cleanupCommit"}
                       THEN /\ tasks' = tasks
                            /\ last' = DeleteResult(caller, userId, fail, "success", "failed")
                       ELSE /\ tasks' = cleanupUserTasks(tasks, userId)
                            /\ last' = DeleteResult(caller, userId, fail, "success", "done")
  /\ UNCHANGED <<now, overdueReports>>
  /\ UNCHANGED appVars

\* ---------------------- handleDeleteMember and FirestoreService.deleteUser
ClientDeleteFailures == {"none", "getUser", "cleanupQuery", "deleteDoc"}

ClientDeleteResult(currentUser, userId, fail, code, cleanup) ==
  [op |-> "handleDeleteMember", caller |-> currentUser, userId |-> userId,
   failed |-> fail, result |-> code, cleanup |-> cleanup, before |-> Before]

\* handleDeleteMember(user): the self test, the confirm dialog, then
\* FirestoreService.deleteUser: read the users document, cleanupUserFromTasks
\* (one updateDoc per task, each of which may fail; errors are caught there),
\* then delete the users document.
handleDeleteMember ==
  /\ \E currentUser \in SignedIn, userId \in UserIds :
       IF userId = currentUser
         THEN /\ last' = ClientDeleteResult(currentUser, userId, "none", "self", "none")
              /\ UNCHANGED <<users, tasks>>
         ELSE \E confirmed \in BOOLEAN, fail \in ClientDeleteFailures :
           IF ~confirmed
             THEN /\ last' = ClientDeleteResult(currentUser, userId, "none",
                                                "cancelled", "none")
                  /\ UNCHANGED <<users, tasks>>
           ELSE IF fail = "getUser"
             THEN /\ last' = ClientDeleteResult(currentUser, userId, fail, "error", "none")
                  /\ UNCHANGED <<users, tasks>>
           ELSE IF userId \notin users
             THEN /\ last' = ClientDeleteResult(currentUser, userId, "none", "error", "none")
                  /\ UNCHANGED <<users, tasks>>
           ELSE IF CleanupErrorPropagates(fail)
             THEN /\ last' = ClientDeleteResult(currentUser, userId, fail, "error", "failed")
                  /\ UNCHANGED <<users, tasks>>
           ELSE \E written \in SUBSET TasksAssignedTo(tasks, userId) :
              LET cleanup == IF fail = "cleanupQuery" \/ written # TasksAssignedTo(tasks, userId)
                               THEN "failed" ELSE "done"
              IN  /\ fail = "cleanupQuery" => written = {}
                  /\ tasks' = WriteCleanup(tasks, userId, written)
                  /\ IF fail = "deleteDoc"
                       THEN /\ users' = users
                            /\ last' = ClientDeleteResult(currentUser, userId, fail,
                                                          "error", cleanup)
                       ELSE /\ users' = users \ {userId}
                            /\ last' = ClientDeleteResult(currentUser, userId, fail,
                                                          "success", cleanup)
  /\ UNCHANGED <<now, authUsers, overdueReports>>
  /\ UNCHANGED appVars

\* --------------------------------------------- user deletion: SpecUsers
RECURSIVE DistinctSeqs(_)
DistinctSeqs(S) ==
  {<<>>} \cup UNION {{<<x>> \o s : s \in DistinctSeqs(S \ {x})} : x \in S}

AssignedTaskDocs ==
  [type : {"daily"}, status : {"todo"}, assignedUserIds : DistinctSeqs(UserIds),
   dueDate : {NoDate}, weeklyDayOfWeek : {NoDay}]

InitUsers ==
  /\ now = 0
  /\ tasks \in {[id \in TaskIds |-> IF id = "t1" THEN a ELSE b] :
                   a \in AssignedTaskDocs \cup {NoDoc},
                   b \in {NoDoc} \cup {d \in AssignedTaskDocs :
                                           d.assignedUserIds = <<"u2", "u1">>}}
  /\ users \in {UserIds, UserIds \ {"u3"}}
  /\ authUsers \in {UserIds, UserIds \ {"u2"}}
  /\ overdueReports = <<>>
  /\ AppIdle
  /\ last = [op |-> "init"]

NextUsers ==
  \/ deleteUser
  \/ handleDeleteMember

SpecUsers == InitUsers /\ [][NextUsers]_vars

\* ---------------------------------------------- claims on the deadline check
CheckOps == {"checkWeeklyTaskDeadlines", "manualCheckWeeklyDeadlines"}

CheckSucceeded == last.op \in CheckOps /\ last.result = "success"

\* the weekday numbering the claims use: Sunday = 0 ... Saturday = 6
WeekFromSunday ==
  <<"sunday", "monday", "tuesday", "wednesday", "thursday", "friday", "saturday">>

WeekdayNumber(d) == (CHOOSE i \in 1..7 : WeekFromSunday[i] = d) - 1

\* the ids listed in the report of the last run
ReportedIds ==
  {last.report.overdueTasks[i].id : i \in 1..Len(last.report.overdueTasks)}

\* the documents the task query of the last run saw
QueriedDoc(id) == last.before.tasks[id]

IsIncompleteWeekly(doc) ==
  doc # NoDoc /\ doc.type = "weekly" /\ doc.status # "completed"

C2_FridayTaskOnMonday ==
  (CheckSucceeded /\ getDay(last.before.now) = 1 /\ getDay(now) = 1) =>
    \A id \in TaskIds :
      IsIncompleteWeekly(QueriedDoc(id)) /\ QueriedDoc(id).weeklyDayOfWeek = "friday" =>
        \E i \in 1..Len(last.report.overdueTasks) :
          /\ last.report.overdueTasks[i].id = id
          /\ last.report.overdueTasks[i].daysOverdue = 3

\* C3: in every report overdueCount is the number of entries of overdueTasks
\* and no task id occurs in overdueTasks twice.
C3_NoDoubleCount ==
  CheckSucceeded =>
    /\ last.report.overdueCount = Len(last.report.overdueTasks)
    /\ \A i, j \in 1..Len(last.report.overdueTasks) :
         i # j => last.report.overdueTasks[i].id # last.report.overdueTasks[j].id
    /\ last.report.overdueCount = Cardinality(ReportedIds)

\* a report with two overdue tasks, one of them with a weekday and a dueDate both passed
C3_Witness ==
  /\ CheckSucceeded
  /\ last.report.overdueCount = 2
  /\ QueriedDoc("t1").weeklyDayOfWeek # NoDay
  /\ QueriedDoc("t1").dueDate # NoDate
  /\ QueriedDoc("t1").dueDate < last.before.now

\* C4: every task listed in a report was of type weekly and not completed
\* when the task query ran.
C4_OnlyIncompleteWeekly ==
  CheckSucceeded => \A id \in ReportedIds : IsIncompleteWeekly(QueriedDoc(id))

\* a run that lists t2 and leaves out a completed weekly task whose weekday has passed
C4_Witness ==
  /\ CheckSucceeded
  /\ ReportedIds = {"t2"}
  /\ QueriedDoc("t1") # NoDoc
  /\ QueriedDoc("t1").type = "weekly"
  /\ QueriedDoc("t1").status = "completed"
  /\ QueriedDoc("t1").weeklyDayOfWeek # NoDay
  /\ getDay(last.before.now) > WeekdayNumber(QueriedDoc("t1").weeklyDayOfWeek)

\* C5: a not completed weekly task with no weekday is reported when its
\* dueDate is earlier than the check time and not reported when its dueDate is
\* not yet reached; with both a weekday and a dueDate only the weekday decides.
C5_LegacyDueDate ==
  CheckSucceeded =>
    \A id \in TaskIds :
      LET doc == QueriedDoc(id)
      IN  IsIncompleteWeekly(doc) /\ doc.dueDate # NoDate =>
            /\ (doc.weeklyDayOfWeek = NoDay /\ doc.dueDate < last.before.now)
                 => id \in ReportedIds
            /\ (doc.weeklyDayOfWeek = NoDay /\ doc.dueDate > last.before.now)
                 => id \notin ReportedIds
            /\ doc.weeklyDayOfWeek # NoDay =>
                 (id \in ReportedIds <=>
                    getDay(last.before.now) > WeekdayNumber(doc.weeklyDayOfWeek))

\* a task with a passed dueDate and a weekday not yet passed is not reported,
\* while a task with only a passed dueDate is
C5_Witness ==
  /\ CheckSucceeded
  /\ IsIncompleteWeekly(QueriedDoc("t1"))
  /\ QueriedDoc("t1").weeklyDayOfWeek # NoDay
  /\ QueriedDoc("t1").dueDate # NoDate
  /\ QueriedDoc("t1").dueDate < last.before.now
  /\ "t1" \notin ReportedIds
  /\ QueriedDoc("t2") # NoDoc
  /\ QueriedDoc("t2").weeklyDayOfWeek = NoDay
  /\ "t2" \in ReportedIds

\* the instant of the processedAt the last run returned
ReturnedProcessedAt ==
  IF last.op = "checkWeeklyTaskDeadlines"
    THEN last.response.report.processedAt
    ELSE last.response.report.processedAt.iso

\* C6: a run of the deadline check that returns success has added exactly one
\* document to overdueReports, the report it returns; a run in which report
\* generation or saving fails adds none and ends with an 'internal' error.
C6_OneReportPerRun ==
  last.op \in CheckOps =>
    IF last.result = "success"
      THEN /\ Len(overdueReports) = Len(last.before.overdueReports) + 1
           /\ SubSeq(overdueReports, 1, Len(last.before.overdueReports))
                = last.before.overdueReports
           /\ LET saved == overdueReports[Len(overdueReports)]
              IN  /\ saved.totalChecked = last.response.report.totalChecked
                  /\ saved.overdueCount = last.response.report.overdueCount
                  /\ saved.overdueTasks = last.response.report.overdueTasks
                  /\ saved.processedAt.timestamp = ReturnedProcessedAt
      ELSE /\ last.result = "internal"
           /\ overdueReports = last.before.overdueReports

\* a manual run that saved a report with an overdue task
C6_Witness ==
  /\ last.op = "manualCheckWeeklyDeadlines"
  /\ last.result = "success"
  /\ last.response.report.overdueCount > 0
  /\ Len(overdueReports) = 1

\* a run whose saveReport failed
C6_WitnessFailure ==
  /\ last.op \in CheckOps
  /\ last.result = "internal"
  /\ last.failed = "saveReport"

\* ------------------------------------------- claims on the report history
\* C7: getOverdueReports returns at most 10 reports for every request, the
\* most recent ones, in descending order of processedAt.
C7_AtMostTenMostRecent ==
  (last.op = "getOverdueReports" /\ last.result = "success") =>
    /\ Len(last.reports) <= 10
    /\ \A i, j \in 1..Len(last.reports) :
         i < j => last.reports[i].processedAt.iso >= last.reports[j].processedAt.iso
    /\ \A k \in 1..Len(overdueReports) :
         (\A i \in 1..Len(last.reports) : last.reports[i].id # k) =>
           \A i \in 1..Len(last.reports) :
             last.reports[i].processedAt.iso >= ToDate(overdueReports[k].processedAt)

\* the part of C7 the code keeps: at most LimitOf(data.limit) reports, the
\* most recent ones, in descending order of processedAt
C7_AtMostLimitMostRecent ==
  (last.op = "getOverdueReports" /\ last.result = "success") =>
    /\ Len(last.reports) <= (IF last.limit = 0 THEN 10 ELSE last.limit)
    /\ \A i, j \in 1..Len(last.reports) :
         i < j => last.reports[i].processedAt.iso >= last.reports[j].processedAt.iso
    /\ \A k \in 1..Len(overdueReports) :
         (\A i \in 1..Len(last.reports) : last.reports[i].id # k) =>
           \A i \in 1..Len(last.reports) :
             last.reports[i].processedAt.iso >= ToDate(overdueReports[k].processedAt)

\* ---------------------------------------------- claims on the user deletion
UsersUnchanged ==
  /\ authUsers = last.before.authUsers
  /\ users = last.before.users
  /\ tasks = last.before.tasks

C8_WitnessNotFound ==
  /\ last.op = "deleteUser"
  /\ last.result = "not-found"
  /\ last.userId \in authUsers

\* C9: when the callable deleteUser returns success for userId, the user is
\* neither in Firebase Authentication nor in the users collection; a call for
\* a user whose Auth account is already missing still deletes the users
\* document and succeeds.
C9_DeletedEverywhere ==
  last.op = "deleteUser" =>
    /\ last.result = "success" =>
         last.userId \notin authUsers /\ last.userId \notin users
    /\ (/\ DeleteUserPrecheck(last.caller, last.userId) = "ok"
        /\ last.userId \in last.before.users
        /\ last.userId \notin last.before.authUsers
        /\ last.failed \notin {"getUser", "authDelete", "deleteDoc"}) =>
         last.result = "success" /\ last.userId \notin users

\* a successful deletion of a user who had an account and a document
C9_Witness ==
  /\ last.op = "deleteUser"
  /\ last.result = "success"
  /\ last.userId \in last.before.authUsers
  /\ last.userId \in last.before.users

\* a successful deletion of a user whose account was already missing
C9_WitnessNoAccount ==
  /\ last.op = "deleteUser"
  /\ last.result = "success"
  /\ last.userId \notin last.before.authUsers

DeleteOps == {"deleteUser", "handleDeleteMember"}

\* s is r without userId: the other ids, each as often and in the same order
IsWithout(s, r, userId) ==
  /\ userId \notin Range(s)
  /\ Range(s) = Range(r) \ {userId}
  /\ Len(s) = Cardinality({i \in 1..Len(r) : r[i] # userId})
  /\ \A i, j \in 1..Len(s) :
       i < j => \E k, l \in 1..Len(r) : k < l /\ r[k] = s[i] /\ r[l] = s[j]

\* no task has the deleted user, and the tasks that had it keep the others
CleanedOf(userId) ==
  \A id \in TaskIds :
    /\ (tasks[id] = NoDoc) <=> (last.before.tasks[id] = NoDoc)
    /\ tasks[id] # NoDoc =>
         IsWithout(tasks[id].assignedUserIds, last.before.tasks[id].assignedUserIds, userId)

C11_CleanupFailureIsNotFatal ==
  /\ (last.op = "deleteUser" /\ last.failed \in {"cleanupQuery", "cleanupCommit"}) =>
       /\ last.result = "success"
       /\ last.userId \notin users
       /\ last.userId \notin authUsers
  /\ (last.op = "handleDeleteMember" /\ last.failed = "cleanupQuery") =>
       /\ last.result = "success"
       /\ last.userId \notin users
  /\ (last.op = "handleDeleteMember" /\ last.cleanup = "failed"
        /\ last.failed # "deleteDoc") =>
       /\ last.result = "success"
       /\ last.userId \notin users

\* a deletion by the callable whose batch commit failed: the user is gone and
\* a task still names it
C11_Witness ==
  /\ last.op = "deleteUser"
  /\ last.failed = "cleanupCommit"
  /\ last.result = "success"
  /\ last.userId \in last.before.users
  /\ TasksAssignedTo(tasks, last.userId) # {}

\* a deletion by the client of which one task update failed and one succeeded
C11_WitnessClient ==
  /\ last.op = "handleDeleteMember"
  /\ last.cleanup = "failed"
  /\ last.result = "success"
  /\ TasksAssignedTo(tasks, last.userId) # {}
  /\ tasks # last.before.tasks

\* ------------------------------------------ AuthService and App: SpecSession
\* the most notifications of Firebase Auth that wait for the listener of App
MaxEvents == 2

\* the account that signs in on this client, and the account a manager adds
LoginIds == {"u1"}
NewUserIds == {"u4"}

\* null, for the user data of App's currentUser
NoUser == "NoUser"

\* a variant of the render that asks for one of the two users only
RenderAnyUser(s) ==
  IF s.isLoading THEN "loading"
  ELSE IF s.currentUser = NoUser /\ s.firebaseUser = NoAuth THEN "login"
  ELSE "main"

\* what App renders: the loading screen, the login page or the pages of the application
Render(s) ==
  IF s.isLoading THEN "loading"
  ELSE IF s.currentUser = NoUser \/ s.firebaseUser = NoAuth THEN "login"
  ELSE "main"

\* Firebase Auth makes user its current user; the listeners of
\* onAuthStateChanged are notified when the uid changes
SetAuthUser(s, user) ==
  IF s.authUser = user THEN s
  ELSE [s EXCEPT !.authUser = user, !.events = Append(@, user)]

\* AuthService.getUserData: the users document, null when there is none or the read fails
getUserData(db, uid, fail) ==
  IF ~fail /\ uid \in db THEN uid ELSE NoUser

\* handleAddMember and AuthService.registerWithoutLogin
RegisterFailures == {"none", "create", "setDoc", "restore"}

registerWithoutLogin ==
  /\ Render(session) = "main"
  /\ session.authUser # NoAuth
  /\ Len(session.events) + 2 <= MaxEvents
  /\ \E newUser \in NewUserIds, fail \in RegisterFailures, restoreFails \in BOOLEAN :
       LET originalUser == session.authUser
           created == fail # "create" /\ newUser \notin authUsers
           written == created /\ fail # "setDoc"
           thrown == ~written \/ fail = "restore"
           restored == IF thrown THEN ~restoreFails ELSE TRUE
           afterCreate == IF created THEN SetAuthUser(session, newUser) ELSE session
       IN  /\ authUsers' = IF created THEN authUsers \cup {newUser} ELSE authUsers
           /\ users' = IF written THEN users \cup {newUser} ELSE users
           /\ session' = IF restored THEN SetAuthUser(afterCreate, originalUser)
                         ELSE afterCreate
           /\ last' = [op |-> "registerWithoutLogin", originalUser |-> originalUser,
                       newUser |-> newUser,
                       failed |-> IF ~created THEN "create" ELSE fail,
                       restoreFailed |-> ~restored,
                       result |-> IF thrown THEN "thrown" ELSE "returned"]
  /\ UNCHANGED <<now, tasks, overdueReports, attendance, workSessions, calls>>

\* the listener App gives to onAuthStateChanged, up to its await
authStateChanged ==
  /\ session.events # <<>>
  /\ LET user == Head(session.events)
         s1 == [session EXCEPT !.events = Tail(@), !.firebaseUser = user]
     IN  /\ session' = IF user = NoAuth
                         THEN [s1 EXCEPT !.currentUser = NoUser, !.isLoading = FALSE]
                         ELSE [s1 EXCEPT !.fetching = @ \cup {user}]
         /\ last' = [op |-> "authStateChanged", user |-> user]
  /\ UNCHANGED <<serverVars, attendance, workSessions, calls>>

\* the listener after its await: getUserData has answered
userDataFetched ==
  /\ \E user \in session.fetching, fail \in BOOLEAN :
       /\ session' = [session EXCEPT !.fetching = @ \ {user},
                                     !.currentUser = getUserData(users, user, fail),
                                     !.isLoading = FALSE]
       /\ last' = [op |-> "userDataFetched", user |-> user]
  /\ UNCHANGED <<serverVars, attendance, workSessions, calls>>

\* App.handleLogin and AuthService.login
LoginFailures == {"none", "signIn", "setDoc"}

handleLogin ==
  /\ Render(session) = "login"
  /\ Len(session.events) + 1 <= MaxEvents
  /\ \E user \in LoginIds \cup NewUserIds, fail \in LoginFailures :
       IF fail = "signIn" \/ user \notin authUsers
         THEN /\ last' = [op |-> "handleLogin", user |-> user, result |-> "error"]
              /\ UNCHANGED <<session, users>>
         ELSE LET signedIn == SetAuthUser(session, user)
                  userData == getUserData(users, user, FALSE)
              IN  IF userData # NoUser
                    THEN /\ session' = [signedIn EXCEPT !.currentUser = userData]
                         /\ last' = [op |-> "handleLogin", user |-> user,
                                     result |-> "success"]
                         /\ users' = users
                    ELSE IF fail = "setDoc"
                      THEN /\ session' = signedIn
                           /\ last' = [op |-> "handleLogin", user |-> user,
                                       result |-> "error"]
                           /\ users' = users
                      ELSE /\ session' = [signedIn EXCEPT !.currentUser = user]
                           /\ users' = users \cup {user}
                           /\ last' = [op |-> "handleLogin", user |-> user,
                                       result |-> "success"]
  /\ UNCHANGED <<now, tasks, authUsers, overdueReports, attendance, workSessions, calls>>

\* App.handleLogout and AuthService.logout
handleLogout ==
  /\ Render(session) = "main"
  /\ Len(session.events) + 1 <= MaxEvents
  /\ \E fail \in BOOLEAN :
       /\ session' = IF fail THEN [session EXCEPT !.currentUser = NoUser]
                     ELSE [SetAuthUser(session, NoAuth) EXCEPT !.currentUser = NoUser]
       /\ last' = [op |-> "handleLogout", failed |-> fail,
                   rendered |-> Render(session)]
  /\ UNCHANGED <<serverVars, attendance, workSessions, calls>>

\* App is mounted: nothing is known yet, Firebase Auth reports the user it kept
InitSession ==
  /\ now = 0
  /\ tasks = EmptyTasks
  /\ authUsers \in {LoginIds, LoginIds \cup NewUserIds}
  /\ users \in {u \in SUBSET authUsers : TRUE}
  /\ overdueReports = <<>>
  /\ attendance = <<>>
  /\ workSessions = <<>>
  /\ calls = NoCalls
  /\ \E kept \in LoginIds \cup {NoAuth} :
       session = [authUser |-> kept, currentUser |-> NoUser, firebaseUser |-> NoAuth,
                  isLoading |-> TRUE, events |-> <<kept>>, fetching |-> {}]
  /\ last = [op |-> "init"]

NextSession ==
  \/ registerWithoutLogin
  \/ authStateChanged
  \/ userDataFetched
  \/ handleLogin
  \/ handleLogout

SpecSession == InitSession /\ [][NextSession]_vars

\* C12: registerWithoutLogin keeps the current login user: whenever it returns
\* or throws (the account creation failed, the write of the users document
\* failed, or all succeeded) the user signed in to Firebase Auth is
\* originalUser, never the new account.
C12_KeepsOriginalUser ==
  last.op = "registerWithoutLogin" => session.authUser = last.originalUser

\* C13: the application is login-gated: the main screen is rendered only when
\* both currentUser and firebaseUser are non-null, otherwise the loading screen
\* or the login page; after handleLogout finishes currentUser is null, also when
\* the sign-out failed.
C13_LoginGated ==
  /\ Render(session) = "main" =>
       (session.currentUser # NoUser /\ session.firebaseUser # NoAuth)
  /\ Render(session) # "main" => Render(session) \in {"loading", "login"}
  /\ last.op = "handleLogout" =>
       (session.currentUser = NoUser /\ Render(session) = "login")

\* a logout whose sign-out failed: Firebase Auth still has its user, App shows
\* the login page
C13_Witness ==
  /\ last.op = "handleLogout"
  /\ last.failed
  /\ last.rendered = "main"
  /\ session.authUser # NoAuth
  /\ session.firebaseUser # NoAuth

\* the main screen is rendered
C13_WitnessMain == Render(session) = "main"

\* ------------------------------------------------ PersonalTasks: SpecPersonal
\* the values of task.isPriority: the field is optional
Priorities == {"true", "false", "undefined"}

\* the times tasks were created at
CreatedAts == {1, 2}

\* the type filter of the page
TaskTypeFilters == TaskTypes \cup {"all"}

\* a variant of the comparator that puts the oldest task first
compareTasksOldestFirst(a, b) ==
  LET priorityA == IF a.isPriority = "true" THEN 1 ELSE 0
      priorityB == IF b.isPriority = "true" THEN 1 ELSE 0
  IN  IF priorityA # priorityB THEN priorityB - priorityA
      ELSE a.createdAt - b.createdAt

\* the comparator given to sort: negative when a comes first
compareTasks(a, b) ==
  LET priorityA == IF a.isPriority = "true" THEN 1 ELSE 0
      priorityB == IF b.isPriority = "true" THEN 1 ELSE 0
  IN  IF priorityA # priorityB THEN priorityB - priorityA
      ELSE b.createdAt - a.createdAt

\* Array.prototype.filter with the test keep, a set of objects
RECURSIVE Filter(_, _)
Filter(s, keep) ==
  IF s = <<>> THEN <<>>
  ELSE (IF Head(s) \in keep THEN <<Head(s)>> ELSE <<>>) \o Filter(Tail(s), keep)

\* Array.prototype.sort with compareTasks: a stable sort
RECURSIVE InsertTask(_, _)
InsertTask(sorted, x) ==
  IF sorted = <<>> THEN <<x>>
  ELSE LET n == Len(sorted)
       IN  IF compareTasks(sorted[n], x) <= 0 THEN Append(sorted, x)
           ELSE Append(InsertTask(SubSeq(sorted, 1, n - 1), x), sorted[n])

RECURSIVE SortTasks(_)
SortTasks(s) ==
  IF s = <<>> THEN <<>>
  ELSE InsertTask(SortTasks(SubSeq(s, 1, Len(s) - 1)), s[Len(s)])

getMyTasks(page) ==
  Filter(page.allTasks,
         {task \in Range(page.allTasks) : page.currentUser \in Range(task.assignedUserIds)})

getFilteredAndSortedTasks(page) ==
  LET myTasks == getMyTasks(page)
      filtered == IF page.selectedTaskType = "all" THEN myTasks
                  ELSE Filter(myTasks, {task \in Range(myTasks) :
                                           task.type = page.selectedTaskType})
  IN  SortTasks(filtered)

\* a click on one of the filter buttons, and the render that follows
setSelectedTaskType ==
  /\ \E type \in TaskTypeFilters :
       /\ type # session.selectedTaskType
       /\ session' = [session EXCEPT !.selectedTaskType = type]
  /\ last' = [op |-> "setSelectedTaskType",
              finalTasks |-> getFilteredAndSortedTasks(session')]
  /\ UNCHANGED <<serverVars, attendance, workSessions, calls>>

\* a click on the priority button of a listed task, and the render that
\* follows when the changed task arrives in allTasks
onUpdateTaskPriority ==
  /\ \E k \in 1..Len(session.allTasks) :
       LET task == session.allTasks[k]
           isPriority == IF task.isPriority = "true" THEN "false" ELSE "true"
       IN  /\ task \in Range(getFilteredAndSortedTasks(session))
           /\ session' = [session EXCEPT !.allTasks[k].isPriority = isPriority]
  /\ last' = [op |-> "onUpdateTaskPriority",
              finalTasks |-> getFilteredAndSortedTasks(session')]
  /\ UNCHANGED <<serverVars, attendance, workSessions, calls>>

PersonalTaskObjects(id) ==
  [id : {id}, type : {"daily", "weekly"}, assignedUserIds : {<<"u1">>, <<"u2">>},
   isPriority : Priorities, createdAt : CreatedAts]

InitPersonal ==
  /\ now = 0
  /\ tasks = EmptyTasks
  /\ users = SignedIn
  /\ authUsers = SignedIn
  /\ overdueReports = <<>>
  /\ attendance = <<>>
  /\ workSessions = <<>>
  /\ calls = NoCalls
  /\ \E a \in PersonalTaskObjects("t1"), b \in PersonalTaskObjects("t2"),
        c \in {t \in PersonalTaskObjects("t3") :
                 t.type = "daily" /\ t.assignedUserIds = <<"u1">>} :
       \E allTasks \in {<<a, b>>, <<a, b, c>>, <<c, b, a>>} :
         session = [component |-> "PersonalTasks", currentUser |-> "u1",
                    allTasks |-> allTasks, selectedTaskType |-> "all"]
  /\ last = [op |-> "init"]

NextPersonal ==
  \/ setSelectedTaskType
  \/ onUpdateTaskPriority

SpecPersonal == InitPersonal /\ [][NextPersonal]_vars

PersonalOps == {"setSelectedTaskType", "onUpdateTaskPriority"}

IsPriority(task) == task.isPriority = "true"

\* C14: the personal task list holds exactly the tasks whose assignedUserIds
\* includes the current user (of the selected type only, when one is selected),
\* each once, the priority tasks first and within equal priority the newest first.
C14_MyTasksPriorityThenNewest ==
  last.op \in PersonalOps =>
    LET finalTasks == last.finalTasks
        mine == {task \in Range(session.allTasks) :
                   /\ session.currentUser \in Range(task.assignedUserIds)
                   /\ session.selectedTaskType \in {"all", task.type}}
    IN  /\ Range(finalTasks) = mine
        /\ Len(finalTasks) = Cardinality(mine)
        /\ \A i, j \in 1..Len(finalTasks) :
             i < j =>
               /\ IsPriority(finalTasks[j]) => IsPriority(finalTasks[i])
               /\ (IsPriority(finalTasks[i]) = IsPriority(finalTasks[j])) =>
                     finalTasks[i].createdAt >= finalTasks[j].createdAt

\* a list of two tasks that the sort had to reorder, by priority and by date,
\* while another task of the page is left out
C14_Witness ==
  /\ last.op = "setSelectedTaskType"
  /\ session.selectedTaskType = "daily"
  /\ Len(last.finalTasks) = 2
  /\ Len(session.allTasks) = 3
  /\ last.finalTasks[1] = session.allTasks[3]
  /\ last.finalTasks[1].createdAt > last.finalTasks[2].createdAt
  /\ last.finalTasks[1].isPriority = last.finalTasks[2].isPriority

\* ---------------------------------------- MainTaskArea alerts: SpecAlerts
\* an hour in units of the clock: 1000 * 60 * 60 ms
HourMs == 2

\* the hours of work after which getAlertTasks lists a main task
AlertTaskHours == 5

\* the hours of work after which AlertPanel calls a main task long running
LongRunningHours == 4

\* more than the given hours lie between start and date:
\* (date - start) / (1000 * 60 * 60) > hours
HoursInProgressOver(date, start, hours) == date - start > hours * HourMs

\* the test of the filter of getAlertTasks
IsAlertTask(task, date) ==
  IF task.status # "completed"
    THEN IF task.type = "weekly" /\ task.dueDate # NoDate /\ task.dueDate < date
           THEN TRUE
         ELSE IF task.type = "main" /\ task.status = "in_progress"
                 /\ task.workStartTime # NoDate
           THEN HoursInProgressOver(date, task.workStartTime, AlertTaskHours)
         ELSE FALSE
    ELSE FALSE

\* the ids of the tasks getAlertTasks returns, in the order of tasks
getAlertTasks(db, date) ==
  SelectSeq(TaskOrder, LAMBDA id : db[id] # NoDoc /\ IsAlertTask(db[id], date))

\* a variant of getAlertType that waits an hour longer than getAlertTasks
getAlertTypeLater(task, date) ==
  IF task.type = "weekly" /\ task.dueDate # NoDate /\ task.dueDate < date
    THEN "overdue"
  ELSE IF /\ task.type = "main" /\ task.status = "in_progress"
          /\ task.workStartTime # NoDate
          /\ HoursInProgressOver(date, task.workStartTime, AlertTaskHours + 1)
    THEN "long_running"
  ELSE "warning"

\* AlertPanel.getAlertType
getAlertType(task, date) ==
  IF task.type = "weekly" /\ task.dueDate # NoDate /\ task.dueDate < date
    THEN "overdue"
  ELSE IF /\ task.type = "main" /\ task.status = "in_progress"
          /\ task.workStartTime # NoDate
          /\ HoursInProgressOver(date, task.workStartTime, LongRunningHours)
    THEN "long_running"
  ELSE "warning"

\* a render of MainTaskArea: getAlertTasks reads the clock, AlertPanel reads
\* it again for every task it shows
renderAlerts ==
  /\ \E d \in 0..MaxRunTicks :
       /\ now + d <= MaxTime
       /\ now' = now + d
       /\ LET alertTasks == getAlertTasks(tasks, now)
          IN  last' = [op |-> "renderAlerts", date |-> now, alertTasks |-> alertTasks,
                       alertType |-> [id \in Range(alertTasks) |->
                                         getAlertType(tasks[id], now + d)]]
  /\ UNCHANGED <<tasks, users, authUsers, overdueReports>>
  /\ UNCHANGED appVars

AlertTaskDocs ==
  [type : TaskTypes, status : TaskStatuses, dueDate : {NoDate, 5},
   workStartTime : {NoDate, 1}]

InitAlerts ==
  /\ now = 0
  /\ tasks \in {[id \in TaskIds |-> IF id = "t1" THEN a ELSE b] :
                   a \in AlertTaskDocs \cup {NoDoc},
                   b \in {NoDoc} \cup {t \in AlertTaskDocs :
                                          /\ t.status = "in_progress"
                                          /\ t.type \in {"weekly", "main"}
                                          /\ t.dueDate = 5 /\ t.workStartTime = 1}}
  /\ users = SignedIn
  /\ authUsers = SignedIn
  /\ overdueReports = <<>>
  /\ AppIdle
  /\ last = [op |-> "init"]

NextAlerts ==
  \/ renderAlerts
  \/ Tick

SpecAlerts == InitAlerts /\ [][NextAlerts]_vars

MinuteMs == 2
ShiftDayMs == 3

\* the clock of this specification stops here, and the collection holds at
\* most this many records
MaxShift == 3
MaxRecords == 2

\* two sessions of the client, both signed in as the same user; the user
\* clocks in from both and clocks out from the first
Sessions == {"s1", "s2"}
ClockOutSessions == {"s1"}
SessionUser == "u1"

\* a session that has no call of the service in flight
IdleCall == [pc |-> "idle"]

\* new Date().toISOString().split('T')[0]: the day of a date
ToISODate(date) == date \div ShiftDayMs

\* the documents the query of getTodayAttendanceRecord matches
TodayRecords(db, userId, date) ==
  {i \in 1..Len(db) : db[i].userId = userId /\ db[i].date = ToISODate(date)}

\* what getTodayAttendanceRecord can return: 0 for null, else docs[0] of a
\* query that has no orderBy
getTodayAttendanceRecord(db, userId, date) ==
  IF TodayRecords(db, userId, date) = {} THEN {0} ELSE TodayRecords(db, userId, date)

\* a variant that rounds the minutes up
workTimeMinutesCeil(clockOutTime, clockInTime) ==
  Ceil(clockOutTime - clockInTime, MinuteMs)

\* Math.floor((clockOutTime - clockInTime) / (1000 * 60))
workTimeMinutes(clockOutTime, clockInTime) ==
  (clockOutTime - clockInTime) \div MinuteMs

\* handleClockIn and clockIn, up to the answer of getTodayAttendanceRecord
clockInRead(s) ==
  /\ calls[s] = IdleCall
  /\ Len(attendance) + Cardinality({t \in Sessions : calls[t].pc = "clockIn"}) < MaxRecords
  /\ \E fail \in BOOLEAN :
       IF fail
         THEN /\ calls' = calls
              /\ last' = [op |-> "clockIn", step |-> "read", session |-> s,
                          result |-> "error", before |-> attendance]
         ELSE \E existingRecord \in getTodayAttendanceRecord(attendance, SessionUser, now) :
                /\ calls' = [calls EXCEPT ![s] =
                               [pc |-> "clockIn", timestamp |-> now,
                                today |-> ToISODate(now),
                                existingRecord |-> existingRecord]]
                /\ last' = [op |-> "clockIn", step |-> "read", session |-> s,
                            result |-> "pending", before |-> attendance]
  /\ UNCHANGED <<serverVars, attendance, workSessions, session>>

\* clockIn after the read: updateDoc of the record found, or addDoc of a new one
clockInWrite(s) ==
  /\ calls[s].pc = "clockIn"
  /\ \E fail \in BOOLEAN :
       LET call == calls[s]
       IN  /\ attendance' =
                IF fail THEN attendance
                ELSE IF call.existingRecord # 0
                  THEN [attendance EXCEPT ![call.existingRecord].clockInTime = call.timestamp,
                                          ![call.existingRecord].status = "clocked_in"]
                ELSE Append(attendance,
                            [userId |-> SessionUser, date |-> call.today,
                             clockInTime |-> call.timestamp, clockOutTime |-> NoDate,
                             totalWorkTime |-> NoDate, status |-> "clocked_in"])
           /\ last' = [op |-> "clockIn", step |-> "write", session |-> s,
                       result |-> IF fail THEN "error" ELSE "success",
                       before |-> attendance]
  /\ calls' = [calls EXCEPT ![s] = IdleCall]
  /\ UNCHANGED <<serverVars, workSessions, session>>

\* handleClockOut and clockOut, up to the tests of the record read
clockOutRead(s) ==
  /\ calls[s] = IdleCall
  /\ \E fail \in BOOLEAN :
       \E existingRecord \in getTodayAttendanceRecord(attendance, SessionUser, now) :
         IF \/ fail
            \/ existingRecord = 0
            \/ attendance[existingRecord].clockInTime = NoDate
           THEN /\ calls' = calls
                /\ last' = [op |-> "clockOut", step |-> "read", session |-> s,
                            result |-> "error", before |-> attendance]
           ELSE /\ calls' = [calls EXCEPT ![s] =
                               [pc |-> "clockOut", timestamp |-> now,
                                existingRecord |-> existingRecord,
                                clockInTime |-> attendance[existingRecord].clockInTime]]
                /\ last' = [op |-> "clockOut", step |-> "read", session |-> s,
                            result |-> "pending", before |-> attendance]
  /\ UNCHANGED <<serverVars, attendance, workSessions, session>>

\* clockOut after the tests: updateDoc of the record read
clockOutWrite(s) ==
  /\ calls[s].pc = "clockOut"
  /\ \E fail \in BOOLEAN :
       LET call == calls[s]
       IN  /\ attendance' =
                IF fail THEN attendance
                ELSE [attendance EXCEPT
                        ![call.existingRecord].clockOutTime = call.timestamp,
                        ![call.existingRecord].totalWorkTime =
                            workTimeMinutes(call.timestamp, call.clockInTime),
                        ![call.existingRecord].status = "clocked_out"]
           /\ last' = [op |-> "clockOut", step |-> "write", session |-> s,
                       result |-> IF fail THEN "error" ELSE "success",
                       record |-> call.existingRecord, timestamp |-> call.timestamp,
                       clockInTime |-> call.clockInTime, before |-> attendance]
  /\ calls' = [calls EXCEPT ![s] = IdleCall]
  /\ UNCHANGED <<serverVars, workSessions, session>>

\* time passes during a shift
TickShift ==
  /\ now < MaxShift
  /\ Tick

\* the collection before the shift: empty, or one record of the first day: of
\* the user, with or without a clockInTime (the field is optional), or of
\* another user
InitAttendance ==
  /\ now = 0
  /\ tasks = EmptyTasks
  /\ users = {"u1", "u2"}
  /\ authUsers = {"u1", "u2"}
  /\ overdueReports = <<>>
  /\ attendance \in
       {<<>>} \cup
       {<<[userId |-> u, date |-> 0, clockInTime |-> t, clockOutTime |-> NoDate,
           totalWorkTime |-> NoDate, status |-> "clocked_in"]>> :
          u \in {"u1", "u2"}, t \in {0, NoDate}}
  /\ workSessions = <<>>
  /\ session = NoSession
  /\ calls = [s \in Sessions |-> IdleCall]
  /\ last = [op |-> "init"]

NextAttendance ==
  \/ \E s \in Sessions : clockInRead(s)
  \/ \E s \in Sessions : clockInWrite(s)
  \/ \E s \in ClockOutSessions : clockOutRead(s)
  \/ \E s \in ClockOutSessions : clockOutWrite(s)
  \/ TickShift

SpecAttendance == InitAttendance /\ [][NextAttendance]_vars

C16_WitnessNoClockIn ==
  /\ last.op = "clockOut"
  /\ last.result = "error"
  /\ last.step = "read"
  /\ TodayRecords(attendance, SessionUser, now) # {}
  /\ \A i \in TodayRecords(attendance, SessionUser, now) : attendance[i].clockInTime = NoDate

\* C17: the collection holds at most one attendance record per user and date,
\* also when two sessions call clockIn concurrently.
C17_OneRecordPerUserAndDate ==
  \A i, j \in 1..Len(attendance) :
    (attendance[i].userId = attendance[j].userId /\ attendance[i].date = attendance[j].date)
      => i = j

\* ---------------------------------- task assignment: SpecAssign
\* two clients that show the member page
Clients == {"c1", "c2"}

\* the page after loadData: its copy of the tasks, no call in flight
Loaded(db) == [tasks |-> db, pc |-> "idle"]

\* FirestoreService.updateTask with updates = {assignedUserIds}
updateTask(db, taskId, assignedUserIds) ==
  [db EXCEPT ![taskId].assignedUserIds = assignedUserIds]

\* the page is mounted again: loadData reads all tasks
loadData(c) ==
  /\ calls[c].pc = "idle"
  /\ calls[c].tasks # tasks
  /\ calls' = [calls EXCEPT ![c] = Loaded(tasks)]
  /\ last' = [op |-> "loadData", client |-> c]
  /\ UNCHANGED <<serverVars, attendance, workSessions, session>>

\* assignTaskToMember up to its await: the task of the page's copy, the new
\* list of assignees
assignTaskToMember(c) ==
  /\ calls[c].pc = "idle"
  /\ \E taskId \in TaskIds, memberId \in UserIds :
       LET task == calls[c].tasks[taskId]
       IN  IF task = NoDoc
             THEN /\ calls' = calls
                  /\ last' = [op |-> "assignTaskToMember", client |-> c,
                              taskId |-> taskId, memberId |-> memberId,
                              result |-> "error", before |-> tasks]
           ELSE IF memberId \in Range(task.assignedUserIds)
             THEN /\ calls' = calls
                  /\ last' = [op |-> "assignTaskToMember", client |-> c,
                              taskId |-> taskId, memberId |-> memberId,
                              result |-> "returned", before |-> tasks]
           ELSE /\ calls' = [calls EXCEPT ![c] =
                               [tasks |-> @.tasks, pc |-> "updateTask",
                                taskId |-> taskId, memberId |-> memberId,
                                newAssignedUserIds |->
                                    Append(task.assignedUserIds, memberId)]]
                /\ last' = [op |-> "assignTaskToMember", client |-> c,
                            taskId |-> taskId, memberId |-> memberId,
                            result |-> "pending", before |-> tasks]
  /\ UNCHANGED <<serverVars, attendance, workSessions, session>>

\* assignTaskToMember after its await: updateDoc has answered, setTasks
\* changes the page's copy
assignTaskCommit(c) ==
  /\ calls[c].pc = "updateTask"
  /\ \E fail \in BOOLEAN :
       LET call == calls[c]
       IN  IF fail \/ tasks[call.taskId] = NoDoc
             THEN /\ tasks' = tasks
                  /\ calls' = [calls EXCEPT ![c] = [tasks |-> call.tasks, pc |-> "idle"]]
                  /\ last' = [op |-> "assignTaskToMember", client |-> c,
                              taskId |-> call.taskId, memberId |-> call.memberId,
                              result |-> "error", before |-> tasks]
             ELSE /\ tasks' = updateTask(tasks, call.taskId, call.newAssignedUserIds)
                  /\ calls' = [calls EXCEPT ![c] =
                                 Loaded(updateTask(call.tasks, call.taskId,
                                                   call.newAssignedUserIds))]
                  /\ last' = [op |-> "assignTaskToMember", client |-> c,
                              taskId |-> call.taskId, memberId |-> call.memberId,
                              result |-> "success", before |-> tasks]
  /\ UNCHANGED <<now, users, authUsers, overdueReports, attendance, workSessions, session>>

\* both pages have loaded the same tasks
InitAssign ==
  /\ now = 0
  /\ tasks \in {[id \in TaskIds |-> IF id = "t1" THEN a ELSE b] :
                   a \in {d \in AssignedTaskDocs : Len(d.assignedUserIds) <= 1},
                   b \in {NoDoc}}
  /\ users = UserIds
  /\ authUsers = UserIds
  /\ overdueReports = <<>>
  /\ attendance = <<>>
  /\ workSessions = <<>>
  /\ session = NoSession
  /\ calls = [c \in Clients |-> Loaded(tasks)]
  /\ last = [op |-> "init"]

NextAssign ==
  \/ \E c \in Clients : loadData(c)
  \/ \E c \in Clients : assignTaskToMember(c)
  \/ \E c \in Clients : assignTaskCommit(c)

SpecAssign == InitAssign /\ [][NextAssign]_vars

\* C18: assignTaskToMember only adds: after it the task has every assignee it
\* had before and the member, no id twice; assigning a member that is already
\* assigned writes nothing; this holds also when two clients assign different
\* members to the same task concurrently: neither assignment is lost.
C18_AssignOnlyAdds ==
  last.op = "assignTaskToMember" =>
    /\ last.result # "success" => tasks = last.before
    /\ last.result = "success" =>
         LET old == last.before[last.taskId].assignedUserIds
             new == tasks[last.taskId].assignedUserIds
         IN  /\ Range(old) \subseteq Range(new)
             /\ last.memberId \in Range(new)
             /\ Cardinality(Range(new)) = Len(new)
             /\ \A id \in TaskIds : id # last.taskId => tasks[id] = last.before[id]

\* ------------------------------------------- work sessions: SpecWork
\* the collection holds at most this many work sessions
MaxSessions == 2

\* the main task of the area
MainTask == "t1"

\* a variant of the query of getDailyWorkTime without where('isActive', '==', false)
DailySessionsAnyState(db, taskId, date) ==
  {i \in 1..Len(db) : db[i].taskId = taskId /\ db[i].date = date}

\* the documents the query of getDailyWorkTime matches
DailySessions(db, taskId, date) ==
  {i \in 1..Len(db) : db[i].taskId = taskId /\ db[i].date = date /\ ~db[i].isActive}

\* the sum of the durations of the sessions S; a session without duration adds nothing
RECURSIVE SumDurations(_, _)
SumDurations(db, S) ==
  IF S = {} THEN 0
  ELSE LET i == CHOOSE x \in S : TRUE
       IN  (IF db[i].duration # NoDate THEN db[i].duration ELSE 0)
             + SumDurations(db, S \ {i})

getDailyWorkTime(db, taskId, date) == SumDurations(db, DailySessions(db, taskId, date))

\* what getActiveWorkSession can return: 0 for null, else docs[0] of a query
\* that has no orderBy
getActiveWorkSession(db, taskId, userId) ==
  LET found == {i \in 1..Len(db) : /\ db[i].taskId = taskId
                                   /\ db[i].userId = userId
                                   /\ db[i].isActive}
  IN  IF found = {} THEN {0} ELSE found

\* Math.round((endTime - startTime) / (1000 * 60))
SessionDuration(endTime, startTime) ==
  (2 * (endTime - startTime) + MinuteMs) \div (2 * MinuteMs)

\* MainTaskArea.getCurrentWorkTime at the given time
getCurrentWorkTime(db, area, taskId, date) ==
  LET totalMinutes == area.dailyWorkTimes[taskId]
      activeSession == area.activeWorkSessions[taskId]
  IN  IF activeSession # 0
        THEN totalMinutes + ((date - db[activeSession].startTime) \div MinuteMs)
        ELSE totalMinutes

\* the state of the area after loadWorkSessionData, with the sessions the
\* daily time was summed over
loadWorkSessionData(db, activeSession, date) ==
  [activeWorkSessions |-> [t \in {MainTask} |-> activeSession],
   dailyWorkTimes |-> [t \in {MainTask} |-> getDailyWorkTime(db, t, ToISODate(date))],
   dailySessions |-> [t \in {MainTask} |-> DailySessions(db, t, ToISODate(date))]]

WorkResult(op, c, result) ==
  [op |-> op, client |-> c, result |-> result, date |-> now]

\* handleStartWork and handleResumeWork: startWorkSession, then the reload
WorkStartFailures == {"none", "getActiveWorkSession", "addDoc"}

handleStartWork(c) ==
  /\ Len(workSessions) < MaxSessions
  /\ \E fail \in WorkStartFailures :
       \E activeSession \in IF fail = "getActiveWorkSession" THEN {0}
                            ELSE getActiveWorkSession(workSessions, MainTask, SessionUser) :
         IF activeSession # 0 \/ fail = "addDoc"
           THEN /\ last' = WorkResult("handleStartWork", c, "error")
                /\ UNCHANGED <<workSessions, session>>
           ELSE LET newSession == [taskId |-> MainTask, userId |-> SessionUser,
                                   startTime |-> now, date |-> ToISODate(now),
                                   isActive |-> TRUE, duration |-> NoDate]
                    db == Append(workSessions, newSession)
                IN  /\ workSessions' = db
                    /\ \E loaded \in getActiveWorkSession(db, MainTask, SessionUser) :
                         session' = [session EXCEPT ![c] =
                                        loadWorkSessionData(db, loaded, now)]
                    /\ last' = WorkResult("handleStartWork", c, "loaded")
  /\ UNCHANGED <<serverVars, attendance, calls>>

\* handleCompleteWork: endWorkSession when the area has an active session,
\* then the reload
handleCompleteWork(c) ==
  /\ \E fail \in BOOLEAN :
       \E activeSession \in getActiveWorkSession(workSessions, MainTask, SessionUser) :
         IF session[c].activeWorkSessions[MainTask] = 0
           THEN /\ workSessions' = workSessions
                /\ session' = [session EXCEPT ![c] =
                                 loadWorkSessionData(workSessions, activeSession, now)]
                /\ last' = WorkResult("handleCompleteWork", c, "loaded")
         ELSE IF fail \/ activeSession = 0
           THEN /\ last' = WorkResult("handleCompleteWork", c, "error")
                /\ UNCHANGED <<workSessions, session>>
         ELSE LET db == [workSessions EXCEPT
                           ![activeSession].isActive = FALSE,
                           ![activeSession].duration =
                               SessionDuration(now, workSessions[activeSession].startTime)]
              IN  /\ workSessions' = db
                  /\ \E loaded \in getActiveWorkSession(db, MainTask, SessionUser) :
                       session' = [session EXCEPT ![c] =
                                      loadWorkSessionData(db, loaded, now)]
                  /\ last' = WorkResult("handleCompleteWork", c, "loaded")
  /\ UNCHANGED <<serverVars, attendance, calls>>

\* the effect on mainTasks: the tasks of the area have changed
reloadWorkSessionData(c) ==
  /\ \E activeSession \in getActiveWorkSession(workSessions, MainTask, SessionUser) :
       /\ session[c] # loadWorkSessionData(workSessions, activeSession, now)
       /\ session' = [session EXCEPT ![c] =
                        loadWorkSessionData(workSessions, activeSession, now)]
  /\ last' = WorkResult("loadWorkSessionData", c, "loaded")
  /\ UNCHANGED <<serverVars, attendance, workSessions, calls>>

\* two clients of the user show the area, no session has been started
InitWork ==
  /\ now = 0
  /\ tasks = EmptyTasks
  /\ users = {"u1", "u2"}
  /\ authUsers = {"u1", "u2"}
  /\ overdueReports = <<>>
  /\ attendance = <<>>
  /\ workSessions = <<>>
  /\ session = [c \in Clients |-> loadWorkSessionData(<<>>, 0, 0)]
  /\ calls = NoCalls
  /\ last = [op |-> "init"]

NextWork ==
  \/ \E c \in Clients : handleStartWork(c)
  \/ \E c \in Clients : handleCompleteWork(c)
  \/ \E c \in Clients : reloadWorkSessionData(c)
  \/ TickShift

SpecWork == InitWork /\ [][NextWork]_vars

EditedTaskDoc ==
  [type |-> "weekly", status |-> "in_progress", assignedUserIds |-> <<"u1", "u2">>,
   dueDate |-> 5, weeklyDayOfWeek |-> NoDay]

\* generateOverdueReport up to its second await: the overdue tasks and the
\* users have been read, processedAt is taken
checkQueryOverdue ==
  /\ calls = IdleCall
  /\ Len(overdueReports) < MaxReports
  /\ \E fail \in BOOLEAN :
       IF fail
         THEN /\ calls' = calls
              /\ last' = [op |-> "checkWeeklyTaskDeadlines", step |-> "query",
                          result |-> "internal"]
         ELSE /\ calls' = [pc |-> "count",
                           overdueTasks |-> getOverdueWeeklyTasks(tasks, now),
                           usersMap |-> users, processedAt |-> now]
              /\ last' = [op |-> "checkWeeklyTaskDeadlines", step |-> "query",
                          result |-> "pending"]
  /\ UNCHANGED <<serverVars, attendance, workSessions, session>>

\* generateOverdueReport from the count query on, and saveReport
checkCountAndSave ==
  /\ calls # IdleCall
  /\ calls.pc = "count"
  /\ \E fail \in BOOLEAN :
       LET report == OverdueReportOf(calls.overdueTasks, tasks, calls.usersMap,
                                     calls.processedAt, now)
       IN  /\ overdueReports' = IF fail THEN overdueReports
                                ELSE saveReport(overdueReports, report)
           /\ last' = [op |-> "checkWeeklyTaskDeadlines", step |-> "save",
                       result |-> IF fail THEN "internal" ELSE "success",
                       report |-> report, queried |-> calls.overdueTasks]
  /\ calls' = IdleCall
  /\ UNCHANGED <<now, tasks, users, authUsers, attendance, workSessions, session>>

\* FirestoreService.createTask of a client
createTask ==
  /\ \E id \in TaskIds :
       /\ tasks[id] = NoDoc
       /\ tasks' = [tasks EXCEPT ![id] = EditedTaskDoc]
       /\ last' = [op |-> "createTask", taskId |-> id]
  /\ UNCHANGED <<now, users, authUsers, overdueReports, appVars>>

\* FirestoreService.deleteTask of a client
deleteTask ==
  /\ \E id \in TaskIds :
       /\ tasks[id] # NoDoc
       /\ tasks' = [tasks EXCEPT ![id] = NoDoc]
       /\ last' = [op |-> "deleteTask", taskId |-> id]
  /\ UNCHANGED <<now, users, authUsers, overdueReports, appVars>>

\* FirestoreService.updateTask of a client with updates = {type}
updateTaskType ==
  /\ \E id \in TaskIds, type \in {"daily", "weekly"} :
       /\ tasks[id] # NoDoc
       /\ tasks[id].type # type
       /\ tasks' = [tasks EXCEPT ![id].type = type]
       /\ last' = [op |-> "updateTask", taskId |-> id]
  /\ UNCHANGED <<now, users, authUsers, overdueReports, appVars>>

InitRace ==
  /\ now = 0
  /\ tasks \in {[id \in TaskIds |-> IF id = "t1" THEN a ELSE b] :
                   a \in {NoDoc, EditedTaskDoc}, b \in {NoDoc, EditedTaskDoc}}
  /\ users = {"u1", "u3"}
  /\ authUsers = {"u1", "u3"}
  /\ overdueReports = <<>>
  /\ attendance = <<>>
  /\ workSessions = <<>>
  /\ session = NoSession
  /\ calls = IdleCall
  /\ last = [op |-> "init"]

NextRace ==
  \/ checkQueryOverdue
  \/ checkCountAndSave
  \/ createTask
  \/ deleteTask
  \/ updateTaskType
  \/ Tick

SpecRace == InitRace /\ [][NextRace]_vars

\* C20: in every saved overdue report overdueCount <= totalChecked, also when
\* tasks are created, deleted or change their type between the overdue query
\* and the count query of the run.
C20_OverdueCountWithinTotal ==
  \A i \in 1..Len(overdueReports) :
    overdueReports[i].overdueCount <= overdueReports[i].totalChecked

====
